---- MODULE Spec2Model ----
(***************************************************************************)
(* Parallel MapReduce k-means of MHBD: the driver main() of main.py, the   *)
(* split / map / reduce of src/parallel_kmeans.py and the centroid file    *)
(* and reconstruction of src/image_utils.py.                               *)
(*                                                                         *)
(* Numbers.  A pixel is a triple of integers (uint8 in the code).  A       *)
(* centroid is a triple of float64 in the code; here each component is an  *)
(* exact fraction <<num, den>> in lowest terms, so that equal values are   *)
(* equal terms.  Sums of pixels are integer-valued in the code (exact in   *)
(* float64); the one rounding the code performs, the division sum / count, *)
(* is modelled as the exact quotient.                                      *)
(* Python indices 0..n-1 are 1..n here.                                    *)
(***************************************************************************)
EXTENDS Integers, Sequences, FiniteSets, TLC

VARIABLES
    pc,                 \* position of main(): the next statement to run
    ctrl,               \* controller state reached by that position
    imageExists,        \* os.path.exists(INPUT_IMAGE)
    numProc,            \* multiprocessing.cpu_count()
    K,                  \* main.py K
    MAX_ITER,           \* main.py MAX_ITER
    THRESHOLD,          \* main.py THRESHOLD, a fraction
    pixels,             \* the pixel buffer returned by load_image_as_array
    current_centroids,  \* main(): current_centroids
    new_centroids,      \* main(): new_centroids
    iteration,          \* main(): iteration
    max_shift,          \* main(): max_shift, a fraction
    chunks,             \* run_parallel_map_reduce: chunks
    task,               \* per chunk: "pending", "running" or "done" in the pool
    taskArgs,           \* per chunk: the (pixels_chunk, centroids) its worker received
    map_results,        \* run_parallel_map_reduce: map_results, slot by slot
    file,               \* content of CENTROIDS_FILE
    output,             \* the buffer built by reconstruct_image_from_array
    history,            \* ghost: the initial CentroidSet, then the output of each Reduce
    shifts,             \* ghost: max_shift of each completed round
    recon,              \* ghost: the CentroidSets handed to the Reconstructor
    exc,                \* the uncaught exception that ended the run, if any
    image,              \* the image file INPUT_IMAGE: its size and its pixels, row by row
    width,              \* main(): width (0 before it is assigned)
    height,             \* main(): height (0 before it is assigned)
    out_shape,          \* shape (height, width) of the array the Reconstructor saved
    disk,               \* a centroid file as save_centroids writes it: lines of numerals
    loaded              \* what load_centroids returned

vars == <<pc, ctrl, imageExists, numProc, K, MAX_ITER, THRESHOLD, pixels,
          current_centroids, new_centroids, iteration, max_shift, chunks, task,
          taskArgs, map_results, file, output, history, shifts, recon, exc,
          image, width, height, out_shape, disk, loaded>>

(***************************************************************************)
(* Bounds of the model.                                                    *)
(***************************************************************************)
MaxN == 3
MaxProc == 2
MaxK == 2
MaxIter == 2

\* The pixel values a buffer is drawn from.
Palette == {<<0, 0, 0>>, <<1, 0, 0>>, <<1, 1, 1>>}

\* a variable that holds no value yet
None == <<>>

\* no exception has left main()
NoException == [type |-> "none", raised_in |-> "none"]

(***************************************************************************)
(* Exact fractions.                                                        *)
(***************************************************************************)
Abs(x) == IF x < 0 THEN -x ELSE x

RECURSIVE GCD(_, _)
GCD(a, b) == IF b = 0 THEN a ELSE GCD(b, a % b)

\* n / d in lowest terms, n >= 0, d > 0
Rat(n, d) == LET g == GCD(n, d) IN <<n \div g, d \div g>>

RatAdd(a, b) == Rat(a[1] * b[2] + b[1] * a[2], a[2] * b[2])

RatAbsDiff(a, b) == Rat(Abs(a[1] * b[2] - b[1] * a[2]), a[2] * b[2])

\* a < b; <<1, 0>> stands for float('inf')
RatLess(a, b) == a[1] * b[2] < b[1] * a[2]

Inf == <<1, 0>>

\* Mutant: the drawn pixels are scaled down on conversion.
AsFloatScaled(pixel) == [c \in 1..3 |-> Rat(pixel[c], 2)]

\* pixels[indices].astype(float)
AsFloat(pixel) == [c \in 1..3 |-> <<pixel[c], 1>>]

(***************************************************************************)
(* Distance.                                                               *)
(***************************************************************************)
\* np.sum(np.abs(pixel - centroid)), pixel an integer triple
Dist(pixel, centroid) ==
    LET d(c) == RatAbsDiff(<<pixel[c], 1>>, centroid[c])
    IN  RatAdd(RatAdd(d(1), d(2)), d(3))

\* manhattan_distance(a, b) of two centroids: the sum of the absolute
\* per-component differences
manhattan_distance(a, b) ==
    LET d(c) == RatAbsDiff(a[c], b[c])
    IN  RatAdd(RatAdd(d(1), d(2)), d(3))

(***************************************************************************)
(* map_task.                                                               *)
(***************************************************************************)
\* Mutant: the scan keeps the last of several equidistant centroids (<=).
CloserOrEqual(dist, min_dist) == ~RatLess(min_dist, dist)

\* if dist < min_dist
Closer(dist, min_dist) == RatLess(dist, min_dist)

\* The scan over enumerate(centroids); nearest_idx -1 of the code is 0 here.
RECURSIVE NearestScan(_, _, _, _, _)
NearestScan(pixel, centroids, idx, min_dist, nearest_idx) ==
    IF idx > Len(centroids) THEN nearest_idx
    ELSE LET dist == Dist(pixel, centroids[idx])
         IN  IF Closer(dist, min_dist)
             THEN NearestScan(pixel, centroids, idx + 1, dist, idx)
             ELSE NearestScan(pixel, centroids, idx + 1, min_dist, nearest_idx)

NearestIdx(pixel, centroids) == NearestScan(pixel, centroids, 1, Inf, 0)

\* Mutant: the pixel is added to every cluster of the dictionary.
AccumulateAll(partial_results, nearest_idx, pixel) ==
    [j \in DOMAIN partial_results |->
        [sum   |-> [c \in 1..3 |-> partial_results[j].sum[c] + pixel[c]],
         count |-> partial_results[j].count + 1]]

\* partial_results[nearest_idx]['sum'] += pixel; ['count'] += 1
Accumulate(partial_results, nearest_idx, pixel) ==
    IF nearest_idx # 0
    THEN [partial_results EXCEPT
            ![nearest_idx] = [sum   |-> [c \in 1..3 |-> @.sum[c] + pixel[c]],
                              count |-> @.count + 1]]
    ELSE partial_results

\* for pixel in pixels_chunk
RECURSIVE MapLoop(_, _, _, _)
MapLoop(pixels_chunk, centroids, j, partial_results) ==
    IF j > Len(pixels_chunk) THEN partial_results
    ELSE MapLoop(pixels_chunk, centroids, j + 1,
                 Accumulate(partial_results,
                            NearestIdx(pixels_chunk[j], centroids),
                            pixels_chunk[j]))

\* Mutant: the dictionary starts empty; an index appears when it first wins a pixel.
EmptyPartialLazy(centroids) == <<>>

\* the dictionary pre-initialised for all k centroids
EmptyPartial(centroids) ==
    [i \in 1..Len(centroids) |-> [sum |-> <<0, 0, 0>>, count |-> 0]]

map_task(args) ==
    MapLoop(args.pixels, args.centroids, 1, EmptyPartial(args.centroids))

(***************************************************************************)
(* run_parallel_map_reduce: split and reduce.                              *)
(***************************************************************************)
\* Mutant: a chunk size of zero is replaced by one.
ChunkStartMinOne(i, n, num_processes) ==
    (i - 1) * (IF n \div num_processes = 0 THEN 1 ELSE n \div num_processes)

\* Mutant: the chunks start at multiples of the chunk size rounded up.
ChunkStartCeil(i, n, num_processes) ==
    (i - 1) * ((n + num_processes - 1) \div num_processes)

\* Mutant: the last chunk does not absorb the remainder.
ChunkEndNoRemainder(i, n, num_processes) == i * (n \div num_processes)

\* chunk i of num_processes (i = 1 is the code's i = 0): start and end of the
\* slice pixels[start:end]
ChunkStart(i, n, num_processes) == (i - 1) * (n \div num_processes)

ChunkEnd(i, n, num_processes) ==
    IF i - 1 < num_processes - 1 THEN i * (n \div num_processes) ELSE n

\* Mutant: the chunks carry the CentroidSet of the first round into every round.
SplitStale(buf, centroids, num_processes) ==
    [i \in 1..num_processes |->
        LET start == ChunkStart(i, Len(buf), num_processes)
            end   == ChunkEnd(i, Len(buf), num_processes)
        IN  [start |-> start, end |-> end,
             pixels |-> SubSeq(buf, start + 1, end),
             centroids |-> history[1]]]

Split(buf, centroids, num_processes) ==
    [i \in 1..num_processes |->
        LET start == ChunkStart(i, Len(buf), num_processes)
            end   == ChunkEnd(i, Len(buf), num_processes)
        IN  [start |-> start, end |-> end,
             pixels |-> SubSeq(buf, start + 1, end),
             centroids |-> centroids]]

\* Mutant: the sums of the chunks after the first are dropped.
TotalSumFirst(results, i, m) ==
    IF m = 0 \/ i \notin DOMAIN results[1] THEN <<0, 0, 0>> ELSE results[1][i].sum

\* total_sum and total_count of cluster i over map_results[1..m]
RECURSIVE TotalSum(_, _, _)
TotalSum(results, i, m) ==
    IF m = 0 THEN <<0, 0, 0>>
    ELSE LET rest == TotalSum(results, i, m - 1)
         IN  IF i \in DOMAIN results[m]
             THEN [c \in 1..3 |-> rest[c] + results[m][i].sum[c]]
             ELSE rest

\* Mutant: the count of a cluster is assigned, not added: the last chunk's count
\* stands for the total.
TotalCountLast(results, i, m) ==
    IF m = 0 THEN 0
    ELSE IF i \in DOMAIN results[m] THEN results[m][i].count ELSE 0

RECURSIVE TotalCount(_, _, _)
TotalCount(results, i, m) ==
    IF m = 0 THEN 0
    ELSE LET rest == TotalCount(results, i, m - 1)
         IN  IF i \in DOMAIN results[m] THEN rest + results[m][i].count ELSE rest

\* Mutant: the clusters are merged in the reverse index order.
ReduceCentroidReversed(results, centroids, i) ==
    LET r           == Len(centroids) + 1 - i
        total_sum   == TotalSum(results, r, Len(results))
        total_count == TotalCount(results, r, Len(results))
    IN  IF total_count > 0
        THEN [c \in 1..3 |-> Rat(total_sum[c], total_count)]
        ELSE centroids[r]

\* Mutant: the sum is not divided by the count.
ReduceCentroidSum(results, centroids, i) ==
    LET total_sum   == TotalSum(results, i, Len(results))
        total_count == TotalCount(results, i, Len(results))
    IN  IF total_count > 0
        THEN [c \in 1..3 |-> <<total_sum[c], 1>>]
        ELSE centroids[i]

\* Mutant: the mean is taken with integer division.
ReduceCentroidIntDiv(results, centroids, i) ==
    LET total_sum   == TotalSum(results, i, Len(results))
        total_count == TotalCount(results, i, Len(results))
    IN  IF total_count > 0
        THEN [c \in 1..3 |-> <<total_sum[c] \div total_count, 1>>]
        ELSE centroids[i]

\* Mutant: an empty cluster is set to zero.
ReduceCentroidZero(results, centroids, i) ==
    LET total_sum   == TotalSum(results, i, Len(results))
        total_count == TotalCount(results, i, Len(results))
    IN  IF total_count > 0
        THEN [c \in 1..3 |-> Rat(total_sum[c], total_count)]
        ELSE [c \in 1..3 |-> <<0, 1>>]

\* new_centroids[i]
ReduceCentroid(results, centroids, i) ==
    LET total_sum   == TotalSum(results, i, Len(results))
        total_count == TotalCount(results, i, Len(results))
    IN  IF total_count > 0
        THEN [c \in 1..3 |-> Rat(total_sum[c], total_count)]
        ELSE centroids[i]

Reduce(results, centroids) ==
    [i \in 1..Len(centroids) |-> ReduceCentroid(results, centroids, i)]

\* Mutant: the map phase counts as complete when every task has ended, whether
\* it delivered a result or raised.
MapPhaseEnded == \A i \in DOMAIN task : task[i] \in {"done", "failed"}

\* pool.map returns once every task has delivered its result
MapPhaseComplete == \A i \in DOMAIN task : task[i] = "done"

(***************************************************************************)
(* main(): shift and convergence test.                                     *)
(***************************************************************************)
RECURSIVE ShiftScan(_, _, _, _)
ShiftScan(new, cur, i, acc) ==
    IF i > Len(cur) THEN acc
    ELSE LET shift == manhattan_distance(new[i], cur[i])
         IN  ShiftScan(new, cur, i + 1, IF RatLess(acc, shift) THEN shift ELSE acc)

\* Mutant: the shift of the last cluster is taken, not the greatest.
MaxShiftLast(new, cur) == manhattan_distance(new[Len(cur)], cur[Len(cur)])

MaxShift(new, cur) == ShiftScan(new, cur, 1, <<0, 1>>)

\* Mutant: the loop test admits one round too many (<=).
LoopTestInclusive(iter, max_iter) == iter <= max_iter

\* while iteration < MAX_ITER
LoopTest(iter, max_iter) == iter < max_iter

\* Mutant: a shift equal to the threshold counts as converged (<=).
BelowOrAtThreshold(shift, threshold) == ~RatLess(threshold, shift)

\* if max_shift < THRESHOLD
BelowThreshold(shift, threshold) == RatLess(shift, threshold)

(***************************************************************************)
(* reconstruct_image_from_array.                                           *)
(***************************************************************************)
RECURSIVE NearestCentroidScan(_, _, _, _, _)
NearestCentroidScan(pixel, centroids, idx, min_dist, nearest_centroid) ==
    IF idx > Len(centroids) THEN nearest_centroid
    ELSE LET dist == Dist(pixel, centroids[idx])
         IN  IF RatLess(dist, min_dist)
             THEN NearestCentroidScan(pixel, centroids, idx + 1, dist, centroids[idx])
             ELSE NearestCentroidScan(pixel, centroids, idx + 1, min_dist,
                                      nearest_centroid)

\* the store of a float64 into the uint8 buffer new_pixels: the fraction is cut
ToUint8(r) == r[1] \div r[2]

Reconstruct(buf, centroids) ==
    [j \in 1..Len(buf) |->
        LET nearest_centroid == NearestCentroidScan(buf[j], centroids, 1, Inf, None)
        IN  [c \in 1..3 |-> ToUint8(nearest_centroid[c])]]

(***************************************************************************)
(* The run: main().                                                        *)
(***************************************************************************)
Buffers == UNION {[1..n -> Palette] : n \in 1..MaxN}

\* the images of one row: img.size is (N, 1)
RowImages == {[width |-> Len(buf), height |-> 1, data |-> buf] : buf \in Buffers}

\* no file at the path
NoFile == [exists |-> FALSE, lines |-> <<>>]

\* Mutant: the draw is made with replacement (the default of np.random.choice).
DrawsWithReplacement(n, k) == [1..k -> 1..n]

\* np.random.choice(n, k, replace=False): k distinct indices, in draw order
Draws(n, k) == {d \in [1..k -> 1..n] : \A a, b \in 1..k : a # b => d[a] # d[b]}

Init ==
    /\ pc = "start"
    /\ ctrl = "Initializing"
    /\ imageExists \in BOOLEAN
    /\ numProc \in 1..MaxProc
    /\ K \in 1..MaxK
    /\ MAX_ITER \in 0..MaxIter
    /\ THRESHOLD = <<1, 1>>
    /\ pixels = <<>>
    /\ current_centroids = None
    /\ new_centroids = None
    /\ iteration = 0
    /\ max_shift = None
    /\ chunks = <<>>
    /\ task = <<>>
    /\ taskArgs = <<>>
    /\ map_results = <<>>
    /\ file = None
    /\ output = None
    /\ history = <<>>
    /\ shifts = <<>>
    /\ recon = <<>>
    /\ exc = NoException
    /\ image \in RowImages
    /\ width = 0
    /\ height = 0
    /\ out_shape = None
    /\ disk = NoFile
    /\ loaded = None

\* main.py 35-37: without the image main() prints an error and returns
CheckInput ==
    /\ pc = "start"
    /\ pc' = IF imageExists THEN "load" ELSE "returned"
    /\ UNCHANGED <<ctrl, imageExists, numProc, K, MAX_ITER, THRESHOLD, pixels,
                   current_centroids, new_centroids, iteration, max_shift, chunks,
                   task, taskArgs, map_results, file, output, history, shifts, recon, exc>>
    /\ UNCHANGED <<image, width, height, out_shape, disk, loaded>>

\* main.py 41: pixels, width, height = load_image_as_array(INPUT_IMAGE)
LoadImage ==
    /\ pc = "load"
    /\ pixels' = image.data
    /\ width' = image.width
    /\ height' = image.height
    /\ pc' = "init"
    /\ UNCHANGED <<ctrl, imageExists, numProc, K, MAX_ITER, THRESHOLD,
                   current_centroids, new_centroids, iteration, max_shift, chunks,
                   task, taskArgs, map_results, file, output, history, shifts, recon, exc>>
    /\ UNCHANGED <<image, out_shape, disk, loaded>>

\* what a save_centroids that raised may leave in the file: the old content
\* (open failed) or, the file truncated by open(filepath, 'w'), the lines
\* written before the error
FailedWrites(old, centroids) ==
    {old} \cup {SubSeq(centroids, 1, n) : n \in 0..(Len(centroids) - 1)}

\* main.py 45, 49: initialize_centroids draws K pixels and saves them; with
\* K > N np.random.choice has nothing to draw and raises ValueError, and the
\* run ends there
InitializeCentroids ==
    /\ pc = "init"
    /\ IF Draws(Len(pixels), K) = {}
       THEN /\ pc' = "aborted"
            /\ exc' = [type |-> "ValueError", raised_in |-> "np.random.choice"]
            /\ UNCHANGED <<ctrl, current_centroids, file, history, iteration>>
       ELSE \E indices \in Draws(Len(pixels), K) :
               LET centroids == [j \in 1..K |-> AsFloat(pixels[indices[j]])]
               IN  /\ current_centroids' = centroids
                   /\ file' = centroids
                   /\ history' = <<centroids>>
                   /\ ctrl' = "Iterating"
                   /\ iteration' = 0
                   /\ pc' = "loop"
                   /\ UNCHANGED exc
    /\ UNCHANGED <<imageExists, numProc, K, MAX_ITER, THRESHOLD, pixels,
                   new_centroids, max_shift, chunks, task, taskArgs, map_results,
                   output, shifts, recon>>
    /\ UNCHANGED <<image, width, height, out_shape, disk, loaded>>

\* main.py 29: save_centroids raises inside initialize_centroids; nothing
\* catches it
InitSaveFails ==
    /\ pc = "init"
    /\ \E indices \in Draws(Len(pixels), K) :
          LET centroids == [j \in 1..K |-> AsFloat(pixels[indices[j]])]
          IN  \E content \in FailedWrites(file, centroids) : file' = content
    /\ exc' = [type |-> "OSError", raised_in |-> "save_centroids"]
    /\ pc' = "aborted"
    /\ UNCHANGED <<ctrl, imageExists, numProc, K, MAX_ITER, THRESHOLD, pixels,
                   current_centroids, new_centroids, iteration, max_shift, chunks,
                   task, taskArgs, map_results, output, history, shifts, recon>>
    /\ UNCHANGED <<image, width, height, out_shape, disk, loaded>>

\* main.py 50, 54 and parallel_kmeans.py 53-63: the loop test holds, the buffer is
\* split and the chunks are handed to a fresh pool
EnterRound ==
    /\ pc = "loop"
    /\ LoopTest(iteration, MAX_ITER)
    /\ chunks' = Split(pixels, current_centroids, numProc)
    /\ task' = [i \in 1..numProc |-> "pending"]
    /\ taskArgs' = [i \in 1..numProc |-> None]
    /\ map_results' = [i \in 1..numProc |-> None]
    /\ pc' = "map"
    /\ UNCHANGED <<ctrl, imageExists, numProc, K, MAX_ITER, THRESHOLD, pixels,
                   current_centroids, new_centroids, iteration, max_shift, file,
                   output, history, shifts, recon, exc>>
    /\ UNCHANGED <<image, width, height, out_shape, disk, loaded>>

\* main.py 50: the loop test fails
ExitLoop ==
    /\ pc = "loop"
    /\ ~LoopTest(iteration, MAX_ITER)
    /\ ctrl' = "ExhaustedIterations"
    /\ pc' = "reconstruct"
    /\ UNCHANGED <<imageExists, numProc, K, MAX_ITER, THRESHOLD, pixels,
                   current_centroids, new_centroids, iteration, max_shift, chunks,
                   task, taskArgs, map_results, file, output, history, shifts, recon, exc>>
    /\ UNCHANGED <<image, width, height, out_shape, disk, loaded>>

\* parallel_kmeans.py 63: a worker of the pool receives the arguments of chunk i
MapStart(i) ==
    /\ pc = "map"
    /\ task[i] = "pending"
    /\ task' = [task EXCEPT ![i] = "running"]
    /\ taskArgs' = [taskArgs EXCEPT
                      ![i] = [pixels |-> chunks[i].pixels,
                              centroids |-> chunks[i].centroids]]
    /\ UNCHANGED <<pc, ctrl, imageExists, numProc, K, MAX_ITER, THRESHOLD, pixels,
                   current_centroids, new_centroids, iteration, max_shift, chunks,
                   map_results, file, output, history, shifts, recon, exc>>
    /\ UNCHANGED <<image, width, height, out_shape, disk, loaded>>

\* Mutant: the results are collected in the order in which the tasks deliver.
MapFinishUnordered(i) ==
    /\ pc = "map"
    /\ task[i] = "running"
    /\ LET free == CHOOSE j \in DOMAIN map_results :
                      /\ map_results[j] = None
                      /\ \A l \in 1..(j - 1) : map_results[l] # None
       IN  map_results' = [map_results EXCEPT ![free] = map_task(taskArgs[i])]
    /\ task' = [task EXCEPT ![i] = "done"]
    /\ UNCHANGED <<pc, ctrl, imageExists, numProc, K, MAX_ITER, THRESHOLD, pixels,
                   current_centroids, new_centroids, iteration, max_shift, chunks,
                   taskArgs, file, output, history, shifts, recon, exc>>
    /\ UNCHANGED <<image, width, height, out_shape, disk, loaded>>

\* Mutant: the workers accumulate into one dictionary that every slot refers to.
MapFinishShared(i) ==
    /\ pc = "map"
    /\ task[i] = "running"
    /\ map_results' = [j \in DOMAIN map_results |-> map_task(taskArgs[i])]
    /\ task' = [task EXCEPT ![i] = "done"]
    /\ UNCHANGED <<pc, ctrl, imageExists, numProc, K, MAX_ITER, THRESHOLD, pixels,
                   current_centroids, new_centroids, iteration, max_shift, chunks,
                   taskArgs, file, output, history, shifts, recon, exc>>
    /\ UNCHANGED <<image, width, height, out_shape, disk, loaded>>

\* parallel_kmeans.py 5-44, 63: the worker runs map_task and its result takes
\* slot i of map_results
MapFinish(i) ==
    /\ pc = "map"
    /\ task[i] = "running"
    /\ map_results' = [map_results EXCEPT ![i] = map_task(taskArgs[i])]
    /\ task' = [task EXCEPT ![i] = "done"]
    /\ UNCHANGED <<pc, ctrl, imageExists, numProc, K, MAX_ITER, THRESHOLD, pixels,
                   current_centroids, new_centroids, iteration, max_shift, chunks,
                   taskArgs, file, output, history, shifts, recon, exc>>
    /\ UNCHANGED <<image, width, height, out_shape, disk, loaded>>

\* parallel_kmeans.py 5-44, 63: map_task raises in the worker; the pool records
\* the failure of task i
MapFails(i) ==
    /\ pc = "map"
    /\ task[i] = "running"
    /\ task' = [task EXCEPT ![i] = "failed"]
    /\ UNCHANGED <<pc, ctrl, imageExists, numProc, K, MAX_ITER, THRESHOLD, pixels,
                   current_centroids, new_centroids, iteration, max_shift, chunks,
                   taskArgs, map_results, file, output, history, shifts, recon, exc>>
    /\ UNCHANGED <<image, width, height, out_shape, disk, loaded>>

\* every task has ended, one of them by raising
MapPhaseFailed ==
    /\ \A i \in DOMAIN task : task[i] \in {"done", "failed"}
    /\ \E i \in DOMAIN task : task[i] = "failed"

\* parallel_kmeans.py 62-63: once all tasks have ended pool.map re-raises the
\* exception of a failed task; neither run_parallel_map_reduce nor main()
\* catches it
PoolRaises ==
    /\ pc = "map"
    /\ MapPhaseFailed
    /\ exc' = [type |-> "Exception", raised_in |-> "map_task"]
    /\ pc' = "aborted"
    /\ UNCHANGED <<ctrl, imageExists, numProc, K, MAX_ITER, THRESHOLD, pixels,
                   current_centroids, new_centroids, iteration, max_shift, chunks,
                   task, taskArgs, map_results, file, output, history, shifts, recon>>
    /\ UNCHANGED <<image, width, height, out_shape, disk, loaded>>

\* parallel_kmeans.py 63-85: pool.map has returned; the reduce loop builds
\* new_centroids, which main() receives
ReducePhase ==
    /\ pc = "map"
    /\ MapPhaseComplete
    /\ new_centroids' = Reduce(map_results, current_centroids)
    /\ history' = Append(history, new_centroids')
    /\ pc' = "shift"
    /\ UNCHANGED <<ctrl, imageExists, numProc, K, MAX_ITER, THRESHOLD, pixels,
                   current_centroids, iteration, max_shift, chunks, task, taskArgs,
                   map_results, file, output, shifts, recon, exc>>
    /\ UNCHANGED <<image, width, height, out_shape, disk, loaded>>

\* main.py 57-63
ComputeShift ==
    /\ pc = "shift"
    /\ max_shift' = MaxShift(new_centroids, current_centroids)
    /\ shifts' = Append(shifts, max_shift')
    /\ pc' = "update"
    /\ UNCHANGED <<ctrl, imageExists, numProc, K, MAX_ITER, THRESHOLD, pixels,
                   current_centroids, new_centroids, iteration, chunks, task,
                   taskArgs, map_results, file, output, history, recon, exc>>
    /\ UNCHANGED <<image, width, height, out_shape, disk, loaded>>

\* main.py 66
UpdateCentroids ==
    /\ pc = "update"
    /\ current_centroids' = new_centroids
    /\ pc' = "save"
    /\ UNCHANGED <<ctrl, imageExists, numProc, K, MAX_ITER, THRESHOLD, pixels,
                   new_centroids, iteration, max_shift, chunks, task, taskArgs,
                   map_results, file, output, history, shifts, recon, exc>>
    /\ UNCHANGED <<image, width, height, out_shape, disk, loaded>>

\* Mutant: the round's save is left out.
SaveSkipped ==
    /\ pc = "save"
    /\ pc' = "check"
    /\ UNCHANGED <<ctrl, imageExists, numProc, K, MAX_ITER, THRESHOLD, pixels,
                   current_centroids, new_centroids, iteration, max_shift, chunks,
                   task, taskArgs, map_results, file, output, history, shifts, recon,
                   exc>>
    /\ UNCHANGED <<image, width, height, out_shape, disk, loaded>>

\* Mutant: the save is made of the set the round started from.
SaveBeforeUpdate ==
    /\ pc = "save"
    /\ file' = history[Len(history) - 1]
    /\ pc' = "check"
    /\ UNCHANGED <<ctrl, imageExists, numProc, K, MAX_ITER, THRESHOLD, pixels,
                   current_centroids, new_centroids, iteration, max_shift, chunks,
                   task, taskArgs, map_results, output, history, shifts, recon, exc>>
    /\ UNCHANGED <<image, width, height, out_shape, disk, loaded>>

\* main.py 67
SaveCentroids ==
    /\ pc = "save"
    /\ file' = current_centroids
    /\ pc' = "check"
    /\ UNCHANGED <<ctrl, imageExists, numProc, K, MAX_ITER, THRESHOLD, pixels,
                   current_centroids, new_centroids, iteration, max_shift, chunks,
                   task, taskArgs, map_results, output, history, shifts, recon, exc>>
    /\ UNCHANGED <<image, width, height, out_shape, disk, loaded>>

\* Mutant: a save that raised is caught and tried again.
SaveRetried ==
    /\ pc = "save"
    /\ \E content \in FailedWrites(file, current_centroids) : file' = content
    /\ exc' = [type |-> "OSError", raised_in |-> "save_centroids"]
    /\ pc' = "save"
    /\ UNCHANGED <<ctrl, imageExists, numProc, K, MAX_ITER, THRESHOLD, pixels,
                   current_centroids, new_centroids, iteration, max_shift, chunks,
                   task, taskArgs, map_results, output, history, shifts, recon>>
    /\ UNCHANGED <<image, width, height, out_shape, disk, loaded>>

\* main.py 67: save_centroids raises; nothing catches it
SaveFails ==
    /\ pc = "save"
    /\ \E content \in FailedWrites(file, current_centroids) : file' = content
    /\ exc' = [type |-> "OSError", raised_in |-> "save_centroids"]
    /\ pc' = "aborted"
    /\ UNCHANGED <<ctrl, imageExists, numProc, K, MAX_ITER, THRESHOLD, pixels,
                   current_centroids, new_centroids, iteration, max_shift, chunks,
                   task, taskArgs, map_results, output, history, shifts, recon>>
    /\ UNCHANGED <<image, width, height, out_shape, disk, loaded>>

\* main.py 69-73
CheckConvergence ==
    /\ pc = "check"
    /\ IF BelowThreshold(max_shift, THRESHOLD)
       THEN /\ ctrl' = "Converged"
            /\ pc' = "reconstruct"
            /\ UNCHANGED iteration
       ELSE /\ iteration' = iteration + 1
            /\ pc' = "loop"
            /\ UNCHANGED ctrl
    /\ UNCHANGED <<imageExists, numProc, K, MAX_ITER, THRESHOLD, pixels,
                   current_centroids, new_centroids, max_shift, chunks, task,
                   taskArgs, map_results, file, output, history, shifts, recon, exc>>
    /\ UNCHANGED <<image, width, height, out_shape, disk, loaded>>

\* Mutant: the Reconstructor writes the centroid values into the buffer it was given.
ReconstructInPlace ==
    /\ pc = "reconstruct"
    /\ output' = Reconstruct(pixels, current_centroids)
    /\ pixels' = output'
    /\ recon' = Append(recon, current_centroids)
    /\ pc' = "done"
    /\ UNCHANGED <<ctrl, imageExists, numProc, K, MAX_ITER, THRESHOLD,
                   current_centroids, new_centroids, iteration, max_shift, chunks,
                   task, taskArgs, map_results, file, history, shifts, exc>>
    /\ out_shape' = <<height, width>>
    /\ UNCHANGED <<image, width, height, disk, loaded>>

\* main.py 77
ReconstructImage ==
    /\ pc = "reconstruct"
    /\ output' = Reconstruct(pixels, current_centroids)
    /\ recon' = Append(recon, current_centroids)
    /\ pc' = "done"
    /\ UNCHANGED <<ctrl, imageExists, numProc, K, MAX_ITER, THRESHOLD, pixels,
                   current_centroids, new_centroids, iteration, max_shift, chunks,
                   task, taskArgs, map_results, file, history, shifts, exc>>
    /\ out_shape' = <<height, width>>
    /\ UNCHANGED <<image, width, height, disk, loaded>>

Next ==
    \/ CheckInput
    \/ LoadImage
    \/ InitializeCentroids
    \/ InitSaveFails
    \/ EnterRound
    \/ ExitLoop
    \/ \E i \in DOMAIN task : MapStart(i)
    \/ \E i \in DOMAIN task : MapFinish(i)
    \/ \E i \in DOMAIN task : MapFails(i)
    \/ PoolRaises
    \/ ReducePhase
    \/ ComputeShift
    \/ UpdateCentroids
    \/ SaveCentroids
    \/ SaveFails
    \/ CheckConvergence
    \/ ReconstructImage

Spec == Init /\ [][Next]_vars

(***************************************************************************)
(* The run as a function of the worker count: one round, and the loop.     *)
(***************************************************************************)
\* run_parallel_map_reduce(buf, centroids, w)
MapReduceRound(buf, centroids, w) ==
    LET cs == Split(buf, centroids, w)
    IN  Reduce([i \in 1..w |->
                   map_task([pixels |-> cs[i].pixels, centroids |-> cs[i].centroids])],
               centroids)

\* the loop of main() from iteration iter on, with w workers: the final
\* CentroidSet.  (The round's result is bound as a value, through a singleton
\* set, so that it is computed once.)
RECURSIVE RunLoop(_, _, _, _, _, _)
RunLoop(buf, centroids, w, iter, max_iter, threshold) ==
    IF ~LoopTest(iter, max_iter) THEN centroids
    ELSE CHOOSE final \in
            {IF BelowThreshold(MaxShift(new, centroids), threshold)
             THEN new
             ELSE RunLoop(buf, new, w, iter + 1, max_iter, threshold) :
                new \in {MapReduceRound(buf, centroids, w)}} : TRUE

(***************************************************************************)
(* The run of main() over a buffer of four pixels, from the state that     *)
(* initialize_centroids leaves when it draws the indices 0 and 2, with the *)
(* threshold one half; no worker and no save raises.                       *)
(***************************************************************************)
ScenarioMaxProc == 4

ScenarioPixels == <<<<0, 0, 0>>, <<0, 0, 1>>, <<10, 10, 10>>, <<10, 10, 11>>>>

ScenarioInit ==
    LET centroids == <<AsFloat(ScenarioPixels[1]), AsFloat(ScenarioPixels[3])>>
    IN  /\ pc = "loop"
        /\ ctrl = "Iterating"
        /\ imageExists = TRUE
        /\ numProc \in 1..ScenarioMaxProc
        /\ K = 2
        /\ MAX_ITER \in {1, 10}
        /\ THRESHOLD = <<1, 2>>
        /\ pixels = ScenarioPixels
        /\ current_centroids = centroids
        /\ file = centroids
        /\ history = <<centroids>>
        /\ iteration = 0
        /\ new_centroids = None
        /\ max_shift = None
        /\ chunks = <<>>
        /\ task = <<>>
        /\ taskArgs = <<>>
        /\ map_results = <<>>
        /\ output = None
        /\ shifts = <<>>
        /\ recon = <<>>
        /\ exc = NoException
        /\ image = [width |-> Len(ScenarioPixels), height |-> 1, data |-> ScenarioPixels]
        /\ width = Len(ScenarioPixels)
        /\ height = 1
        /\ out_shape = None
        /\ disk = NoFile
        /\ loaded = None

ScenarioNext ==
    \/ EnterRound
    \/ ExitLoop
    \/ \E i \in DOMAIN task : MapStart(i)
    \/ \E i \in DOMAIN task : MapFinish(i)
    \/ ReducePhase
    \/ ComputeShift
    \/ UpdateCentroids
    \/ SaveCentroids
    \/ CheckConvergence
    \/ ReconstructImage

\* the controller and the pool keep running: a step that can be taken is taken
ScenarioSpec == ScenarioInit /\ [][ScenarioNext]_vars /\ WF_vars(ScenarioNext)

(***************************************************************************)
(* The centroid store: save_centroids and load_centroids of image_utils.py.*)
(*                                                                         *)
(* A float is here a value m * 2^e of a binary format with MantBits bits   *)
(* of mantissa and the exponents -MaxExp..MaxExp (float64 has 53 bits),    *)
(* held as a fraction like every centroid component.  A numeral is the     *)
(* decimal text of one field of a line: its digits and its power of ten.   *)
(***************************************************************************)
MantBits == 3
MaxExp == 2

ToyFloats ==
    {Rat(m * 2^(e + MaxExp), 2^MaxExp) : m \in 0..(2^MantBits - 1), e \in (-MaxExp)..MaxExp}

\* r / 10^e
Scale(r, e) == IF e >= 0 THEN Rat(r[1], r[2] * 10^e) ELSE Rat(r[1] * 10^(-e), r[2])

\* round to the nearest integer, a tie to the even one
RoundHalfEven(r) ==
    LET q == r[1] \div r[2]
        rem == r[1] % r[2]
    IN  IF 2 * rem < r[2] THEN q
        ELSE IF 2 * rem > r[2] THEN q + 1
        ELSE IF q % 2 = 0 THEN q ELSE q + 1

\* the power of ten of the leading digit of r > 0
Magnitude(r) ==
    CHOOSE k \in (-MaxExp)..(MantBits + MaxExp) :
        /\ ~RatLess(r, Scale(<<1, 1>>, -k))
        /\ RatLess(r, Scale(<<1, 1>>, -(k + 1)))

\* r written with d significant digits
ToDecimal(r, d) ==
    IF r[1] = 0 THEN [digits |-> 0, exp |-> 0]
    ELSE LET e == Magnitude(r) - d + 1
         IN  [digits |-> RoundHalfEven(Scale(r, e)), exp |-> e]

DecimalValue(t) == Scale(<<t.digits, 1>>, -t.exp)

\* the number of factors 2 of a float: of two neighbours the one with more
\* has the even mantissa
RECURSIVE Twos(_)
Twos(n) == IF n = 0 THEN MantBits + MaxExp + 1 ELSE IF n % 2 = 1 THEN 0 ELSE 1 + Twos(n \div 2)

Evenness(f) == IF f[2] > 1 THEN -f[2] ELSE Twos(f[1])

\* float(text): the float nearest to the numeral's value, a tie to the even mantissa
Parse(t) ==
    LET v == DecimalValue(t)
    IN  CHOOSE f \in ToyFloats :
           \A g \in ToyFloats :
              \/ RatLess(RatAbsDiff(f, v), RatAbsDiff(g, v))
              \/ /\ RatAbsDiff(f, v) = RatAbsDiff(g, v)
                 /\ Evenness(f) >= Evenness(g)

\* the digits that always tell one float of the format from the next (17 for
\* float64): the least D with 10^(D-1) > 2^MantBits
ReprDigits ==
    CHOOSE D \in 1..(MantBits + 1) :
        /\ 10^(D - 1) > 2^MantBits
        /\ D > 1 => 10^(D - 2) <= 2^MantBits

\* Mutant: the text keeps one significant digit.
FormatOneDigit(r) == ToDecimal(r, 1)

\* str(x) of a float: the shortest numeral that float() reads back as x
Format(r) ==
    LET d == CHOOSE d \in 1..ReprDigits :
                /\ Parse(ToDecimal(r, d)) = r
                /\ \A d2 \in 1..(d - 1) : Parse(ToDecimal(r, d2)) # r
    IN  ToDecimal(r, d)

\* save_centroids: open(filepath, 'w') and one line per centroid, the fields
\* of a line are the comma-joined str() of its components
save_centroids(centroids) ==
    [exists |-> TRUE,
     lines  |-> [i \in 1..Len(centroids) |->
                    [c \in DOMAIN centroids[i] |-> Format(centroids[i][c])]]]

\* load_centroids: [] without the file; else every line that is not blank,
\* split at the commas, each field through float()
load_centroids(f) ==
    IF ~f.exists THEN <<>>
    ELSE LET kept == SelectSeq(f.lines, LAMBDA line : line # <<>>)
         IN  [i \in 1..Len(kept) |-> [c \in DOMAIN kept[i] |-> Parse(kept[i][c])]]

\* the CentroidSets stored: none, one centroid, or two in an order that shows;
\* a centroid is made of a float and of zero or of the next float above it
StoreCentroid(p) == <<p[1], p[2], p[1]>>

StorePairs ==
    {p \in ToyFloats \X ToyFloats :
        \/ p[2] = <<0, 1>>
        \/ /\ RatLess(p[1], p[2])
           /\ \A g \in ToyFloats : ~(RatLess(p[1], g) /\ RatLess(g, p[2]))}

StoreSets ==
    {<<>>}
    \cup {<<StoreCentroid(p)>> : p \in StorePairs}
    \cup {<<StoreCentroid(p), StoreCentroid(<<p[2], p[1]>>)>> : p \in StorePairs}

\* a file left by an earlier run
OldFile == [exists |-> TRUE, lines |-> << <<[digits |-> 1, exp |-> 0],
                                           [digits |-> 1, exp |-> 0],
                                           [digits |-> 1, exp |-> 0]>> >>]

StoreInit ==
    /\ pc = "store"
    /\ current_centroids \in StoreSets
    /\ disk \in {NoFile, OldFile}
    /\ loaded = None
    /\ ctrl = "Initializing"
    /\ imageExists = FALSE
    /\ numProc = 1
    /\ K = 1
    /\ MAX_ITER = 0
    /\ THRESHOLD = <<1, 1>>
    /\ pixels = <<>>
    /\ new_centroids = None
    /\ iteration = 0
    /\ max_shift = None
    /\ chunks = <<>>
    /\ task = <<>>
    /\ taskArgs = <<>>
    /\ map_results = <<>>
    /\ file = None
    /\ output = None
    /\ history = <<>>
    /\ shifts = <<>>
    /\ recon = <<>>
    /\ exc = NoException
    /\ image = [width |-> 0, height |-> 0, data |-> <<>>]
    /\ width = 0
    /\ height = 0
    /\ out_shape = None

\* save_centroids(current_centroids, path)
StoreSave ==
    /\ pc = "store"
    /\ disk' = save_centroids(current_centroids)
    /\ pc' = "stored"
    /\ UNCHANGED <<ctrl, imageExists, numProc, K, MAX_ITER, THRESHOLD, pixels,
                   current_centroids, new_centroids, iteration, max_shift, chunks,
                   task, taskArgs, map_results, file, output, history, shifts, recon,
                   exc, image, width, height, out_shape, loaded>>

\* load_centroids(path) after the save
StoreLoad ==
    /\ pc = "stored"
    /\ loaded' = load_centroids(disk)
    /\ pc' = "loaded"
    /\ UNCHANGED <<ctrl, imageExists, numProc, K, MAX_ITER, THRESHOLD, pixels,
                   current_centroids, new_centroids, iteration, max_shift, chunks,
                   task, taskArgs, map_results, file, output, history, shifts, recon,
                   exc, image, width, height, out_shape, disk>>

\* Mutant: the load opens the path for appending first, which creates the file.
StoreProbeCreates ==
    /\ pc = "store"
    /\ disk' = [exists |-> TRUE, lines |-> disk.lines]
    /\ loaded' = load_centroids(disk')
    /\ pc' = "probed"
    /\ UNCHANGED <<ctrl, imageExists, numProc, K, MAX_ITER, THRESHOLD, pixels,
                   current_centroids, new_centroids, iteration, max_shift, chunks,
                   task, taskArgs, map_results, file, output, history, shifts, recon,
                   exc, image, width, height, out_shape>>

\* load_centroids(path) before any save
StoreProbe ==
    /\ pc = "store"
    /\ loaded' = load_centroids(disk)
    /\ pc' = "probed"
    /\ UNCHANGED <<ctrl, imageExists, numProc, K, MAX_ITER, THRESHOLD, pixels,
                   current_centroids, new_centroids, iteration, max_shift, chunks,
                   task, taskArgs, map_results, file, output, history, shifts, recon,
                   exc, image, width, height, out_shape, disk>>

StoreNext == StoreSave \/ StoreLoad \/ StoreProbe

StoreSpec == StoreInit /\ [][StoreNext]_vars

(***************************************************************************)
(* Notions the properties are stated with.                                 *)
(***************************************************************************)
N == Len(pixels)

Last(s) == s[Len(s)]

\* the L1 distance of an integer pixel and a centroid
L1(pixel, centroid) ==
    LET d(c) == RatAbsDiff(<<pixel[c], 1>>, centroid[c])
    IN  RatAdd(d(1), RatAdd(d(2), d(3)))

\* i is the lowest index that minimises the L1 distance to pixel
IsNearest(pixel, centroids, i) ==
    \E di \in {L1(pixel, centroids[i])} :
        /\ \A j \in 1..(i - 1) : RatLess(di, L1(pixel, centroids[j]))
        /\ \A j \in (i + 1)..Len(centroids) : ~RatLess(L1(pixel, centroids[j]), di)

\* the sum of f[x] over the finite set S
RECURSIVE SumOver(_, _)
SumOver(f, S) ==
    IF S = {} THEN 0
    ELSE LET x == CHOOSE y \in S : TRUE IN f[x] + SumOver(f, S \ {x})

\* a Reduce of the current round has run and its check has not
AfterReduce == pc \in {"shift", "update", "save", "check"}

Terminated == pc \in {"done", "returned", "aborted"}

(***************************************************************************)
(* C1.  Hard barrier between Map and Reduce and between Reduce and the     *)
(* next Map: no map task runs outside a Map phase; every task that has     *)
(* started in round t holds exactly the CentroidSet produced by the Reduce *)
(* of round t-1 (the initial set in round 1); and once the Reduce of a     *)
(* round has run, every task of that round has delivered its result.       *)
(***************************************************************************)
BarrierC1 ==
    /\ pc # "map" => \A i \in DOMAIN task : task[i] # "running"
    /\ pc = "map" =>
          /\ Len(history) = iteration + 1
          /\ \A i \in DOMAIN task :
                task[i] # "pending" => taskArgs[i].centroids = history[iteration + 1]
    /\ AfterReduce =>
          /\ Len(history) = iteration + 2
          /\ Len(task) = numProc
          /\ \A i \in DOMAIN task :
                /\ task[i] = "done"
                /\ DOMAIN map_results[i] = 1..K
                /\ taskArgs[i].centroids = history[iteration + 1]

\* in the second round, with a CentroidSet that differs from the initial one, one
\* task has delivered and another is running
WitnessC1 ==
    /\ pc = "map"
    /\ iteration = 1
    /\ history[2] # history[1]
    /\ \E i, j \in DOMAIN task : task[i] = "done" /\ task[j] = "running"

(***************************************************************************)
(* C2.  Determinism across worker counts: the CentroidSet every Reduce     *)
(* returns is the one a round with 1, with 2 and with N workers yields     *)
(* from the round's input, and the final CentroidSet is the one the whole  *)
(* loop yields with 1, with 2 and with N workers.                          *)
(***************************************************************************)
DeterminismC2 ==
    /\ pc = "shift" =>
          \A w \in {1, 2, N} :
             Last(history) = MapReduceRound(pixels, history[Len(history) - 1], w)
    /\ pc = "done" =>
          \A w \in {1, 2, N} :
             current_centroids = RunLoop(pixels, history[1], w, 0, MAX_ITER, THRESHOLD)

\* a finished run of two rounds over three pixels with two workers, the chunks of
\* unequal size
WitnessC2 ==
    /\ pc = "done"
    /\ numProc = 2
    /\ N = 3
    /\ Len(history) = 3
    /\ history[2] # history[1]

(***************************************************************************)
(* C3.  Partition coverage: with 1 <= workerCount <= N the split yields    *)
(* workerCount chunks, each the slice start..end of the buffer, the slices *)
(* contiguous from 0 to N, so that every pixel index lies in exactly one   *)
(* chunk and the chunks concatenated in order are the buffer.              *)
(***************************************************************************)
RECURSIVE Concat(_, _)
Concat(cs, m) == IF m = 0 THEN <<>> ELSE Concat(cs, m - 1) \o cs[m].pixels

CoverageC3 ==
    (chunks # <<>> /\ numProc <= N) =>
        /\ Len(chunks) = numProc
        /\ chunks[1].start = 0
        /\ chunks[numProc].end = N
        /\ \A i \in 1..numProc :
              /\ chunks[i].start <= chunks[i].end
              /\ i < numProc => chunks[i].end = chunks[i + 1].start
              /\ chunks[i].pixels =
                    [j \in 1..(chunks[i].end - chunks[i].start) |->
                        pixels[chunks[i].start + j]]
        /\ \A j \in 1..N :
              Cardinality({i \in 1..numProc :
                              chunks[i].start < j /\ j <= chunks[i].end}) = 1
        /\ Concat(chunks, numProc) = pixels

\* three pixels, not all alike, split over two workers
WitnessC3 ==
    /\ pc = "map"
    /\ numProc = 2
    /\ N = 3
    /\ pixels[3] # pixels[1]

(***************************************************************************)
(* C4.  Partition sizes: with 1 <= workerCount <= N every chunk but the    *)
(* last has floor(N / workerCount) pixels, the last has                    *)
(* N - (workerCount-1)*chunkSize, and two sizes differ by at most          *)
(* N mod workerCount.                                                      *)
(***************************************************************************)
SizesC4 ==
    (chunks # <<>> /\ numProc <= N) =>
        LET chunkSize == N \div numProc
        IN  /\ \A i \in 1..(numProc - 1) : Len(chunks[i].pixels) = chunkSize
            /\ Len(chunks[numProc].pixels) = N - (numProc - 1) * chunkSize
            /\ \A i, j \in 1..numProc :
                  Len(chunks[i].pixels) - Len(chunks[j].pixels) <= N % numProc

\* a split with a remainder: the last chunk is longer than the first
WitnessC4 ==
    /\ pc = "map"
    /\ numProc = 2
    /\ numProc <= N
    /\ Len(chunks[2].pixels) > Len(chunks[1].pixels)

(***************************************************************************)
(* C5.  Nearest-centroid rule of the Mapper: the partial aggregate of a    *)
(* finished map task counts, for every cluster i, exactly the pixels of    *)
(* its chunk for which i is the lowest index minimising the L1 distance,   *)
(* and sums exactly those pixels.  (A result never changes once it is      *)
(* delivered; it is examined when its Map phase has ended, by the Reduce   *)
(* or by the pool's exception.)                                            *)
(***************************************************************************)
NearestC5 ==
    \A t \in DOMAIN task :
       (task[t] = "done" /\ pc \in {"shift", "aborted"}) =>
          LET chunk == taskArgs[t].pixels
              cents == taskArgs[t].centroids
          IN  \A i \in 1..Len(cents) :
                 LET won == {n \in 1..Len(chunk) : IsNearest(chunk[n], cents, i)}
                 IN  /\ map_results[t][i].count = Cardinality(won)
                     /\ \A c \in 1..3 :
                           map_results[t][i].sum[c] =
                              SumOver([n \in 1..Len(chunk) |-> chunk[n][c]], won)

\* a finished task had a pixel at equal least distance from two distinct centroids
WitnessC5 ==
    \E t \in DOMAIN task :
       /\ task[t] = "done"
       /\ \E n \in 1..Len(taskArgs[t].pixels) :
             \E i, j \in 1..Len(taskArgs[t].centroids) :
                /\ i < j
                /\ taskArgs[t].centroids[i] # taskArgs[t].centroids[j]
                /\ IsNearest(taskArgs[t].pixels[n], taskArgs[t].centroids, i)
                /\ L1(taskArgs[t].pixels[n], taskArgs[t].centroids[i]) =
                      L1(taskArgs[t].pixels[n], taskArgs[t].centroids[j])

(***************************************************************************)
(* C6.  Reducer mean: after a Reduce, every cluster i whose count summed   *)
(* over all chunk partials is > 0 has as new centroid the summed sum       *)
(* vector divided by the summed count, and these are the count and the     *)
(* component-wise sum of all pixels of the buffer for which i is the       *)
(* nearest centroid of the round's input set.                              *)
(***************************************************************************)
MeanC6 ==
    AfterReduce =>
       \A i \in 1..K :
          LET prev == history[Len(history) - 1]
              cnt == SumOver([m \in 1..numProc |-> map_results[m][i].count], 1..numProc)
              tot(c) == SumOver([m \in 1..numProc |-> map_results[m][i].sum[c]],
                                1..numProc)
              won == {n \in 1..N : IsNearest(pixels[n], prev, i)}
          IN  cnt > 0 =>
                 /\ cnt = Cardinality(won)
                 /\ \A c \in 1..3 :
                       /\ tot(c) = SumOver([n \in 1..N |-> pixels[n][c]], won)
                       /\ new_centroids[i][c][2] > 0
                       /\ new_centroids[i][c][1] * cnt = tot(c) * new_centroids[i][c][2]

\* a cluster fed by two chunks whose mean is not an integer
WitnessC6 ==
    /\ AfterReduce
    /\ numProc = 2
    /\ \E i \in 1..K :
          /\ map_results[1][i].count > 0
          /\ map_results[2][i].count > 0
          /\ \E c \in 1..3 : new_centroids[i][c][2] > 1

(***************************************************************************)
(* C7.  Empty-cluster policy: after a Reduce, a cluster to which no chunk  *)
(* assigned a pixel has the centroid it had in the round's input set.      *)
(***************************************************************************)
EmptyClusterC7 ==
    AfterReduce =>
       \A i \in 1..K :
          (\A m \in 1..numProc : map_results[m][i].count = 0) =>
             new_centroids[i] = history[Len(history) - 1][i]

\* an empty cluster whose centroid is not the zero vector
WitnessC7 ==
    /\ AfterReduce
    /\ \E i \in 1..K :
          /\ \A m \in 1..numProc : map_results[m][i].count = 0
          /\ new_centroids[i] # <<<<0, 1>>, <<0, 1>>, <<0, 1>>>>

(***************************************************************************)
(* C8.  Convergence transition: the controller is Converged exactly once   *)
(* the check of a round with max_shift < threshold has run; that round is  *)
(* the first such round and the last round run (no Map phase follows); a   *)
(* round with max_shift >= threshold leaves the controller Iterating.  (A  *)
(* round whose save raised has no check: the run is aborted.)              *)
(***************************************************************************)
ConvergedC8 ==
    /\ ctrl = "Converged" =>
          /\ shifts # <<>>
          /\ RatLess(Last(shifts), THRESHOLD)
          /\ \A t \in 1..(Len(shifts) - 1) : ~RatLess(shifts[t], THRESHOLD)
          /\ pc \in {"reconstruct", "done"}
          /\ Len(history) = Len(shifts) + 1
    /\ ((\E t \in 1..Len(shifts) : RatLess(shifts[t], THRESHOLD))
            /\ pc \notin {"update", "save", "check", "aborted"}) => ctrl = "Converged"

\* converged in the second round, after a round whose max_shift equals the threshold
WitnessC8 ==
    /\ ctrl = "Converged"
    /\ Len(shifts) = 2
    /\ shifts[1] = THRESHOLD

(***************************************************************************)
(* C9.  Bounded termination: no more than maxIterations rounds are ever    *)
(* started; a run that ended with no round below the threshold ran exactly *)
(* maxIterations rounds and ended in ExhaustedIterations with its output   *)
(* built; and every run ends: a run that has not ended can take a step,    *)
(* and every step lowers a measure that is never negative.                 *)
(***************************************************************************)
RoundsStarted == IF history = <<>> THEN 0
                 ELSE Len(history) - 1 + (IF pc = "map" THEN 1 ELSE 0)

\* the steps of one round: entering it, two per task, reduce, shift, update,
\* save and check
RoundSteps == 2 * numProc + 6

TaskSteps(i) == IF task[i] = "pending" THEN 2 ELSE IF task[i] = "running" THEN 1 ELSE 0

\* an upper bound of the steps the run can still take
StepsLeft ==
    LET rounds(n) == n * RoundSteps + 2
    IN  CASE pc = "start"       -> rounds(MAX_ITER) + 3
          [] pc = "load"        -> rounds(MAX_ITER) + 2
          [] pc = "init"        -> rounds(MAX_ITER) + 1
          [] pc = "loop"        -> rounds(MAX_ITER - iteration)
          [] pc = "map"         -> rounds(MAX_ITER - iteration - 1) + 5
                                   + SumOver([i \in DOMAIN task |-> TaskSteps(i)],
                                             DOMAIN task)
          [] pc = "shift"       -> rounds(MAX_ITER - iteration - 1) + 4
          [] pc = "update"      -> rounds(MAX_ITER - iteration - 1) + 3
          [] pc = "save"        -> rounds(MAX_ITER - iteration - 1) + 2
          [] pc = "check"       -> rounds(MAX_ITER - iteration - 1) + 1
          [] pc = "reconstruct" -> 1
          [] OTHER              -> 0

CanStep ==
    \/ pc \in {"start", "load", "init", "loop", "shift", "update", "save", "check",
               "reconstruct"}
    \/ pc = "map" /\ (MapPhaseComplete \/ \E i \in DOMAIN task : task[i] # "done")

BoundedC9 ==
    /\ RoundsStarted <= MAX_ITER
    /\ (pc = "done" /\ \A t \in 1..Len(shifts) : ~RatLess(shifts[t], THRESHOLD)) =>
          /\ Len(shifts) = MAX_ITER
          /\ ctrl = "ExhaustedIterations"
          /\ Len(output) = N
    /\ StepsLeft >= 0
    /\ Terminated \/ CanStep

\* C9: the bounds on the rounds always hold and every step lowers StepsLeft.
TerminationC9 == []BoundedC9 /\ [][StepsLeft' < StepsLeft]_vars

\* a run of two rounds, neither below the threshold, that ended
WitnessC9 ==
    /\ pc = "done"
    /\ MAX_ITER = 2
    /\ Len(shifts) = 2
    /\ \A t \in 1..2 : ~RatLess(shifts[t], THRESHOLD)

(***************************************************************************)
(* C10.  Controller state order and output: the controller state changes   *)
(* only Initializing -> Iterating -> Converged or ExhaustedIterations; the *)
(* Reconstructor runs once, in a terminal state, and what it receives is   *)
(* the output of the last Reduce (the initial set if no round ran) and is  *)
(* the content of the centroid file.                                       *)
(***************************************************************************)
TerminalCtrl == {"Converged", "ExhaustedIterations"}

OutputC10 ==
    /\ Len(recon) <= 1
    /\ ctrl \in TerminalCtrl <=> pc \in {"reconstruct", "done"}
    /\ Len(recon) = 1 <=> pc = "done"
    /\ pc = "done" =>
          /\ recon[1] = Last(history)
          /\ recon[1] = file
          /\ recon[1] = current_centroids

StepC10 ==
    ctrl' # ctrl =>
       <<ctrl, ctrl'>> \in {<<"Initializing", "Iterating">>,
                            <<"Iterating", "Converged">>,
                            <<"Iterating", "ExhaustedIterations">>}

\* C10: the output conditions always hold and every step keeps the state order.
OrderC10 == []OutputC10 /\ [][StepC10]_vars

\* a finished run whose last round moved the centroids
WitnessC10 ==
    /\ pc = "done"
    /\ Len(history) >= 2
    /\ Last(history) # history[Len(history) - 1]

(***************************************************************************)
(* C11.  Persistence ordering and consistency: at the loop test, during    *)
(* every Map phase and at the convergence check that follows a save, the   *)
(* centroid file holds a complete set of exactly K centroids of three      *)
(* components, equal to the controller's current CentroidSet, which is the *)
(* output of the last Reduce.                                              *)
(***************************************************************************)
PersistedC11 ==
    pc \in {"loop", "map", "check"} =>
        /\ Len(file) = K
        /\ \A i \in 1..K : DOMAIN file[i] = 1..3
        /\ file = current_centroids
        /\ file = history[IF pc = "check" THEN iteration + 2 ELSE iteration + 1]

\* the Map phase of a second round, the file no longer the initial set
WitnessC11 ==
    /\ pc = "map"
    /\ iteration = 1
    /\ file # history[1]
    /\ \E i \in DOMAIN task : task[i] = "running"

(***************************************************************************)
(* C12.  Worker failure is fatal: once a map task has failed no Reduce is  *)
(* computed for that iteration, no new CentroidSet is produced or          *)
(* persisted, no later iteration and no reconstruction runs, and when the  *)
(* pool has raised the run is aborted.                                     *)
(***************************************************************************)
WorkerFailureC12 ==
    /\ (\E i \in DOMAIN task : task[i] = "failed") =>
          /\ pc \in {"map", "aborted"}
          /\ Len(history) = iteration + 1
          /\ current_centroids = history[iteration + 1]
          /\ file = current_centroids
          /\ Len(shifts) = iteration
          /\ recon = <<>>
          /\ output = None
          /\ ctrl = "Iterating"
    /\ exc.raised_in = "map_task" <=>
          (pc = "aborted" /\ \E i \in DOMAIN task : task[i] = "failed")

\* the run aborted in its second round: one task failed, another delivered
WitnessC12 ==
    /\ pc = "aborted"
    /\ exc.raised_in = "map_task"
    /\ iteration = 1
    /\ \E i, j \in DOMAIN task : task[i] = "failed" /\ task[j] = "done"

(***************************************************************************)
(* C13.  Persistence failure is fatal and never retried: when a save has   *)
(* raised, at initialisation or after a round, the run is aborted, no      *)
(* Reconstructor has run, and nothing runs from an aborted state: no       *)
(* second save, no Map phase, no task or Reduce again; a failed map task   *)
(* stays failed.                                                           *)
(***************************************************************************)
AbortedC13 ==
    /\ exc # NoException <=> pc = "aborted"
    /\ exc.raised_in = "save_centroids" =>
          /\ recon = <<>>
          /\ output = None
          /\ \A i \in DOMAIN task : task[i] = "done"
          /\ ctrl = "Iterating" => Len(history) = iteration + 2
          /\ ctrl = "Initializing" => history = <<>> /\ task = <<>>

NoRetryStepC13 ==
    /\ pc # "aborted"
    /\ \A i \in DOMAIN task :
          task[i] = "failed" =>
             /\ DOMAIN task' = DOMAIN task
             /\ task'[i] = "failed"
             /\ taskArgs'[i] = taskArgs[i]
             /\ map_results'[i] = map_results[i]

\* C13: a raised save leaves the run aborted, and no step leaves an aborted state
\* or runs a failed task again
NoRetryC13 == []AbortedC13 /\ [][NoRetryStepC13]_vars

\* a save raised after the second round and left an incomplete file
WitnessC13 ==
    /\ exc.raised_in = "save_centroids"
    /\ iteration = 1
    /\ Len(file) < K

(***************************************************************************)
(* C14.  Input errors abort before any iteration: while the image is       *)
(* missing or K exceeds the number of pixels no step starts a Map phase,   *)
(* writes the centroid file or runs the Reconstructor; no round has been   *)
(* started, and the run can only end returned or aborted.                  *)
(***************************************************************************)
InputError == ~imageExists \/ (pc \notin {"start", "load"} /\ K > N)

InputErrorStateC14 ==
    InputError =>
        /\ pc \in {"start", "init", "returned", "aborted"}
        /\ history = <<>>
        /\ task = <<>>
        /\ recon = <<>>
        /\ output = None
        /\ file = None
        /\ pc = "aborted" => exc.raised_in = "np.random.choice"

InputErrorStepC14 ==
    InputError => /\ file' = file
                  /\ recon' = recon
                  /\ pc' \in {"returned", "aborted"}

\* C14: under an input error nothing has run, and every step ends the run
InputErrorC14 == []InputErrorStateC14 /\ [][InputErrorStepC14]_vars

\* the run aborted over an image of fewer than K pixels
WitnessC14 ==
    /\ pc = "aborted"
    /\ imageExists
    /\ K > N
    /\ N >= 1

(***************************************************************************)
(* C15.  Diagnostic of a fatal error.  Nothing in main() or                *)
(* run_parallel_map_reduce catches an exception, so the diagnostic of an   *)
(* abort is the interpreter's report of the uncaught exception: its type   *)
(* and the function that raised it.  As stated, the diagnostic of every    *)
(* abort names a function of one phase and carries the iteration number.   *)
(***************************************************************************)
DiagnosticC15 ==
    pc = "aborted" =>
        /\ exc.raised_in \in {"np.random.choice", "map_task", "save_centroids"}
        /\ "iteration" \in DOMAIN exc

(***************************************************************************)
(* C16.  Reconstruction.  As stated: when the run is done, every output    *)
(* pixel j is, in each component, an integer nearest to the component of   *)
(* the final centroid at the lowest index among those at minimum L1        *)
(* distance from input pixel j (a tie at one half may go either way).      *)
(***************************************************************************)
IsRounded(n, r) == 2 * Abs(n * r[2] - r[1]) <= r[2]

RoundedC16 ==
    pc = "done" =>
        /\ Len(output) = N
        /\ \A j \in 1..N : \A i \in 1..K :
              IsNearest(pixels[j], current_centroids, i) =>
                  \A c \in 1..3 : IsRounded(output[j][c], current_centroids[i][c])

(***************************************************************************)
(* C17.  Fixed point stops the loop: when the CentroidSet a round started  *)
(* from has every centroid that wins a pixel equal to the exact mean of    *)
(* the pixels it wins, the Reduce of that round returns the same set, the  *)
(* round's max_shift is 0, which is below every positive threshold, and    *)
(* once the round's check has run the controller is Converged: the loop    *)
(* test is never reached again.                                            *)
(***************************************************************************)
IsFixedPoint(buf, centroids) ==
    \A i \in 1..Len(centroids) :
        LET won == {n \in 1..Len(buf) : IsNearest(buf[n], centroids, i)}
        IN  won # {} =>
               \A c \in 1..3 :
                  centroids[i][c] =
                     Rat(SumOver([n \in 1..Len(buf) |-> buf[n][c]], won), Cardinality(won))

Thresholds == {<<1, 1000>>, <<1, 2>>, <<1, 1>>, <<2, 1>>}

FixedPointC17 ==
    (Len(history) >= 2 /\ pc \in {"shift", "check", "loop", "reconstruct", "done"}) =>
        LET t == Len(history) - 1
        IN  IsFixedPoint(pixels, history[t]) =>
               /\ history[t + 1] = history[t]
               /\ pc = "shift" =>
                     \A th \in Thresholds :
                        BelowThreshold(MaxShift(new_centroids, history[t]), th)
               /\ pc # "shift" => /\ shifts[t] = <<0, 1>>
                                  /\ pc = "check" => max_shift = <<0, 1>>
                                  /\ pc # "check" => /\ ctrl = "Converged"
                                                     /\ pc \in {"reconstruct", "done"}

\* a second round that started from a fixed point which the first round moved to,
\* with a centroid whose mean is not an integer, has converged
WitnessC17 ==
    /\ pc = "reconstruct"
    /\ ctrl = "Converged"
    /\ Len(history) = 3
    /\ history[2] # history[1]
    /\ IsFixedPoint(pixels, history[2])
    /\ \E i \in 1..K : \E c \in 1..3 : history[2][i][c][2] > 1

(***************************************************************************)
(* C18.  End-to-end scenario: over the buffer (0,0,0), (0,0,1),            *)
(* (10,10,10), (10,10,11) with K = 2, the initial centroids (0,0,0) and    *)
(* (10,10,10), threshold 0.5 and maxIterations 10, the first round gives   *)
(* the centroids (0,0,0.5) and (10,10,10.5) with max_shift 0.5, every      *)
(* later round has max_shift 0, and the run ends, Converged, with the      *)
(* iteration counter at 1.                                                 *)
(***************************************************************************)
ScenarioStateC18 ==
    MAX_ITER = 10 =>
        /\ Len(history) >= 2 =>
              history[2] = << <<<<0, 1>>, <<0, 1>>, <<1, 2>>>>,
                              <<<<10, 1>>, <<10, 1>>, <<21, 2>>>> >>
        /\ Len(shifts) >= 1 => shifts[1] = <<1, 2>>
        /\ \A t \in 2..Len(shifts) : shifts[t] = <<0, 1>>
        /\ iteration <= 1
        /\ ctrl # "ExhaustedIterations"
        /\ ctrl = "Converged" <=> pc \in {"reconstruct", "done"}
        /\ ctrl = "Converged" => /\ iteration = 1
                                 /\ Len(shifts) = 2
                                 /\ current_centroids = history[2]

ScenarioC18 == []ScenarioStateC18 /\ <>(pc = "done")

\* the scenario's run ended after its second round, run by three workers
WitnessC18 ==
    /\ pc = "done"
    /\ MAX_ITER = 10
    /\ numProc = 3
    /\ ctrl = "Converged"
    /\ iteration = 1
    /\ shifts = <<<<1, 2>>, <<0, 1>>>>

(***************************************************************************)
(* C19.  CentroidSet shape and identity: every CentroidSet of the run (the *)
(* initial one and each Reduce output) has exactly K entries of three      *)
(* components; after a Reduce, entry i is the mean of the sums and counts  *)
(* that the map results hold at index i, or the previous centroid i when   *)
(* that count is zero, and it stays the same when the aggregates of every  *)
(* other index and every other previous centroid are replaced.             *)
(***************************************************************************)
\* the map results and the previous set with everything but index i replaced
OnlyIndex(results, i) ==
    [m \in DOMAIN results |->
        [j \in DOMAIN results[m] |->
            IF j = i THEN results[m][j] ELSE [sum |-> <<7, 7, 7>>, count |-> 3]]]

OnlyCentroid(centroids, i) ==
    [j \in DOMAIN centroids |->
        IF j = i THEN centroids[j] ELSE <<<<5, 1>>, <<5, 1>>, <<5, 1>>>>]

ShapeC19 ==
    /\ \A t \in 1..Len(history) :
          /\ DOMAIN history[t] = 1..K
          /\ \A i \in 1..K : DOMAIN history[t][i] = 1..3
    /\ pc = "shift" =>
          /\ new_centroids = Last(history)
          /\ \A i \in 1..K :
                LET prev == history[Len(history) - 1]
                    cnt  == SumOver([m \in 1..numProc |-> map_results[m][i].count],
                                    1..numProc)
                    tot(c) == SumOver([m \in 1..numProc |-> map_results[m][i].sum[c]],
                                      1..numProc)
                IN  /\ new_centroids[i] =
                          IF cnt > 0 THEN [c \in 1..3 |-> Rat(tot(c), cnt)] ELSE prev[i]
                    /\ new_centroids[i] =
                          Reduce(OnlyIndex(map_results, i), OnlyCentroid(prev, i))[i]

\* a Reduce over two clusters, one of them empty, whose outputs differ
WitnessC19 ==
    /\ pc = "shift"
    /\ K = 2
    /\ new_centroids[1] # new_centroids[2]
    /\ \E i \in 1..K : \A m \in 1..numProc : map_results[m][i].count = 0
    /\ new_centroids # history[Len(history) - 1]

(***************************************************************************)
(* C20.  Mapper output is total over cluster indices: the result of every  *)
(* finished map task, over an empty chunk too, has an entry for each of    *)
(* the K indices and for no other, and an index that is the nearest        *)
(* centroid of no pixel of the chunk has count 0 and sum (0,0,0); so has   *)
(* every index of the result of a map task over the empty chunk, for every *)
(* CentroidSet of the run.  (A result never changes once it is delivered;  *)
(* it is examined when its Map phase has ended.)                           *)
(***************************************************************************)
TotalC20 ==
    /\ \A t \in DOMAIN task :
          (task[t] = "done" /\ pc \in {"shift", "aborted"}) =>
             LET chunk == taskArgs[t].pixels
                 cents == taskArgs[t].centroids
             IN  /\ DOMAIN map_results[t] = 1..K
                 /\ \A i \in 1..K :
                       /\ DOMAIN map_results[t][i] = {"sum", "count"}
                       /\ \/ /\ map_results[t][i].count = 0
                             /\ map_results[t][i].sum = <<0, 0, 0>>
                          \/ \E n \in 1..Len(chunk) : IsNearest(chunk[n], cents, i)
    /\ pc = "loop" =>
          map_task([pixels |-> <<>>, centroids |-> current_centroids]) =
             [i \in 1..K |-> [sum |-> <<0, 0, 0>>, count |-> 0]]

\* a Map phase ended in which one task had an empty chunk
WitnessC20 ==
    /\ pc = "shift"
    /\ \E t, u \in DOMAIN task :
          /\ taskArgs[t].pixels = <<>>
          /\ map_results[t] = [i \in 1..K |-> [sum |-> <<0, 0, 0>>, count |-> 0]]
          /\ taskArgs[u].pixels # <<>>

(***************************************************************************)
(* C21.  Initialisation: when initialize_centroids has returned, with      *)
(* K <= N, the initial CentroidSet has exactly K centroids and there are K *)
(* pairwise distinct buffer indices, one per centroid in the order of the  *)
(* set, such that centroid j is the value of the pixel at the j-th index;  *)
(* the set is the current one and the one persisted.                       *)
(***************************************************************************)
InitialisedC21 ==
    (pc = "loop" /\ iteration = 0) =>
        /\ K <= N
        /\ Len(history) = 1
        /\ Len(history[1]) = K
        /\ current_centroids = history[1]
        /\ file = history[1]
        /\ \E d \in [1..K -> 1..N] :
              /\ \A a, b \in 1..K : a # b => d[a] # d[b]
              /\ \A j \in 1..K : \A c \in 1..3 : history[1][j][c] = <<pixels[d[j]][c], 1>>

\* two centroids drawn from three pixels of different values, the later pixel first
WitnessC21 ==
    /\ pc = "loop"
    /\ iteration = 0
    /\ K = 2
    /\ N = 3
    /\ pixels[1] # pixels[2] /\ pixels[2] # pixels[3] /\ pixels[1] # pixels[3]
    /\ history[1] = <<AsFloat(pixels[3]), AsFloat(pixels[1])>>

(***************************************************************************)
(* C22.  max_shift of a round is the greatest, over the K cluster indices, *)
(* of the L1 distance between the centroid the round's Reduce returned and *)
(* the centroid the round's Map phase was given; it is 0 exactly when the  *)
(* round changed no centroid; and when it has been computed the current    *)
(* CentroidSet is still the old one.                                       *)
(***************************************************************************)
CentroidL1(a, b) ==
    RatAdd(RatAbsDiff(a[1], b[1]), RatAdd(RatAbsDiff(a[2], b[2]), RatAbsDiff(a[3], b[3])))

MaxShiftC22 ==
    /\ \A t \in 1..Len(shifts) :
          LET d(i) == CentroidL1(history[t + 1][i], history[t][i])
          IN  /\ \E i \in 1..K : shifts[t] = d(i)
              /\ \A i \in 1..K : ~RatLess(shifts[t], d(i))
              /\ shifts[t] = <<0, 1>> <=> history[t + 1] = history[t]
    /\ pc = "update" =>
          /\ max_shift = Last(shifts)
          /\ Len(history) = Len(shifts) + 1
          /\ current_centroids = history[Len(history) - 1]
          /\ new_centroids = Last(history)
    /\ pc = "shift" => Len(history) = Len(shifts) + 2

\* a round moved both centroids, the second further than the first
WitnessC22 ==
    /\ pc = "update"
    /\ K = 2
    /\ RatLess(<<0, 1>>, CentroidL1(new_centroids[1], current_centroids[1]))
    /\ RatLess(CentroidL1(new_centroids[1], current_centroids[1]),
               CentroidL1(new_centroids[2], current_centroids[2]))

(***************************************************************************)
(* C23.  Centroid store round trip: for every CentroidSet X, the file that *)
(* save_centroids wrote has one line per centroid of X, in order, of three *)
(* comma-joined fields, each a numeral to which no float is nearer than    *)
(* the component it stands for, and load_centroids of that file returns as *)
(* many centroids as X has, in the same order, every component equal to    *)
(* the component of X.                                                     *)
(***************************************************************************)
RoundTripC23 ==
    /\ pc \in {"stored", "loaded"} =>
          /\ disk.exists
          /\ Len(disk.lines) = Len(current_centroids)
          /\ \A i \in 1..Len(current_centroids) :
                /\ DOMAIN disk.lines[i] = 1..3
                /\ \A c \in 1..3 :
                      \A g \in ToyFloats :
                         ~RatLess(RatAbsDiff(g, DecimalValue(disk.lines[i][c])),
                                  RatAbsDiff(current_centroids[i][c],
                                             DecimalValue(disk.lines[i][c])))
    /\ pc = "loaded" =>
          /\ Len(loaded) = Len(current_centroids)
          /\ \A i \in 1..Len(current_centroids) :
                /\ DOMAIN loaded[i] = 1..3
                /\ \A c \in 1..3 : loaded[i][c] = current_centroids[i][c]

\* two different centroids came back, one of them through a numeral that is
\* not its exact value
WitnessC23 ==
    /\ pc = "loaded"
    /\ Len(current_centroids) = 2
    /\ current_centroids[1] # current_centroids[2]
    /\ loaded = current_centroids
    /\ \E c \in 1..3 : DecimalValue(disk.lines[1][c]) # current_centroids[1][c]

(***************************************************************************)
(* C24.  load_centroids on a path that does not exist returns the empty    *)
(* CentroidSet, raises nothing, and leaves the storage as it was: the file *)
(* still does not exist.  (Of a file that exists it returns the lines.)    *)
(***************************************************************************)
MissingStateC24 ==
    pc = "probed" =>
        /\ exc = NoException
        /\ ~disk.exists => loaded = <<>>
        /\ disk.exists => Len(loaded) = Len(disk.lines)

MissingStepC24 == (pc = "store" /\ pc' = "probed") => disk' = disk /\ exc' = exc

MissingSourceC24 == []MissingStateC24 /\ [][MissingStepC24]_vars

\* a load of a missing file, by a caller that holds a CentroidSet
WitnessC24 ==
    /\ pc = "probed"
    /\ ~disk.exists
    /\ disk = NoFile
    /\ loaded = <<>>
    /\ current_centroids # <<>>

(***************************************************************************)
(* C25.  Map tasks share no mutable state: the step in which a map task    *)
(* delivers writes its own slot of the results and nothing else; the       *)
(* CentroidSet, the buffer, every chunk, the arguments of every task and   *)
(* every other slot stay as they were, whatever the other tasks are doing, *)
(* and the slot holds what map_task gives for that chunk alone.            *)
(***************************************************************************)
IsolatedStepC25 ==
    \A i \in DOMAIN task :
        (pc = "map" /\ task[i] = "running" /\ task'[i] = "done") =>
            /\ current_centroids' = current_centroids
            /\ pixels' = pixels
            /\ chunks' = chunks
            /\ taskArgs' = taskArgs
            /\ \A j \in DOMAIN task \ {i} :
                  /\ map_results'[j] = map_results[j]
                  /\ task'[j] = task[j]
            /\ map_results'[i] =
                  MapLoop(chunks[i].pixels, current_centroids, 1,
                          [k \in 1..K |-> [sum |-> <<0, 0, 0>>, count |-> 0]])

IsolationC25 == [][IsolatedStepC25]_vars

\* the second task delivered while the first was still running
WitnessC25 ==
    /\ pc = "map"
    /\ numProc = 2
    /\ task = <<"running", "done">>
    /\ chunks[1].pixels # <<>> /\ chunks[2].pixels # <<>>
    /\ map_results[2] = map_task(taskArgs[2])
    /\ map_results[1] = None

(***************************************************************************)
(* C26.  The pixel buffer is read-only: from the load on, through the      *)
(* initialisation, every round and the reconstruction, the buffer holds    *)
(* the N = width * height pixels of the image in their order and no step   *)
(* changes it; the Reconstructor's result is another buffer of N pixels,   *)
(* saved with the height and the width of the image.                       *)
(***************************************************************************)
ReadOnlyStateC26 ==
    /\ pc \notin {"start", "load", "returned"} =>
          /\ pixels = image.data
          /\ width = image.width
          /\ height = image.height
          /\ N = width * height
    /\ pc = "done" =>
          /\ Len(output) = N
          /\ out_shape = <<image.height, image.width>>
    /\ pc # "done" => output = None /\ out_shape = None

ReadOnlyStepC26 ==
    /\ image' = image
    /\ pc \notin {"start", "load"} => pixels' = pixels /\ width' = width /\ height' = height

ReadOnlyC26 == []ReadOnlyStateC26 /\ [][ReadOnlyStepC26]_vars

\* a run of two rounds ended with an output that differs from its input of
\* three pixels
WitnessC26 ==
    /\ pc = "done"
    /\ N = 3
    /\ Len(history) = 3
    /\ output # pixels
    /\ out_shape = <<1, 3>>

(***************************************************************************)
(* C27.  Pixel conservation: when a Map phase has ended, the counts of     *)
(* each finished task, summed over the clusters, are the length of its     *)
(* chunk and its sums are the sum of the chunk's pixels; when all tasks    *)
(* delivered, the counts over all clusters and chunks add up to N and the  *)
(* sum vectors to the component-wise sum of all pixels of the buffer.      *)
(***************************************************************************)
ConservationC27 ==
    pc \in {"shift", "aborted"} =>
        /\ \A t \in DOMAIN task :
              task[t] = "done" =>
                 LET chunk == taskArgs[t].pixels
                 IN  /\ SumOver([i \in 1..K |-> map_results[t][i].count], 1..K) = Len(chunk)
                     /\ \A c \in 1..3 :
                           SumOver([i \in 1..K |-> map_results[t][i].sum[c]], 1..K)
                              = SumOver([n \in 1..Len(chunk) |-> chunk[n][c]], 1..Len(chunk))
        /\ pc = "shift" =>
              LET pairs == (1..numProc) \X (1..K)
              IN  /\ SumOver([p \in pairs |-> map_results[p[1]][p[2]].count], pairs) = N
                  /\ \A c \in 1..3 :
                        SumOver([p \in pairs |-> map_results[p[1]][p[2]].sum[c]], pairs)
                           = SumOver([n \in 1..N |-> pixels[n][c]], 1..N)

\* three pixels over two chunks and two clusters, no chunk and no cluster empty
WitnessC27 ==
    /\ pc = "shift"
    /\ N = 3
    /\ numProc = 2
    /\ K = 2
    /\ \A i \in 1..K : \E m \in 1..numProc : map_results[m][i].count > 0
    /\ \E i \in 1..K : \A m \in 1..numProc : map_results[m][i].count > 0

(***************************************************************************)
(* C28.  Reduce does not depend on the order in which the map tasks        *)
(* finish: in every interleaving, when the Map phase has ended slot i of   *)
(* the results holds the aggregate of chunk i, and the new CentroidSet is  *)
(* the Reduce of the chunks' aggregates taken in chunk order, a function   *)
(* of the buffer, the CentroidSet and the worker count alone.              *)
(***************************************************************************)
InOrder(cs) ==
    [i \in DOMAIN cs |-> map_task([pixels |-> cs[i].pixels, centroids |-> cs[i].centroids])]

OrderFreeC28 ==
    /\ pc = "aborted" =>
          \A t \in DOMAIN task : task[t] = "done" => map_results[t] = InOrder(chunks)[t]
    /\ pc = "shift" =>
          /\ chunks = Split(pixels, current_centroids, numProc)
          /\ map_results = InOrder(chunks)
          /\ new_centroids = Reduce(map_results, current_centroids)

\* the second chunk's aggregate was delivered before the first task had started,
\* and it is not the aggregate of the first chunk
WitnessC28 ==
    /\ pc = "map"
    /\ task = <<"pending", "done">>
    /\ map_results[2] = InOrder(chunks)[2]
    /\ map_results[2] # InOrder(chunks)[1]

(***************************************************************************)
(* C29.  Degenerate partition: with more workers than pixels the chunk     *)
(* size is 0, the split still has one chunk per worker, every chunk but    *)
(* the last is empty and the last is the whole buffer in order, and the    *)
(* round's CentroidSet is the one a single worker gives.                   *)
(***************************************************************************)
DegenerateC29 ==
    (chunks # <<>> /\ numProc > N) =>
        /\ N \div numProc = 0
        /\ Len(chunks) = numProc
        /\ \A i \in 1..(numProc - 1) : chunks[i].pixels = <<>>
        /\ chunks[numProc].pixels = pixels
        /\ pc = "shift" => new_centroids = MapReduceRound(pixels, current_centroids, 1)

\* a Map phase of two workers over one pixel has ended: the first aggregate
\* is empty, the second holds the pixel
WitnessC29 ==
    /\ pc = "shift"
    /\ numProc > N
    /\ \A i \in 1..K : map_results[1][i].count = 0
    /\ \E i \in 1..K : map_results[numProc][i].count = N
    /\ new_centroids = MapReduceRound(pixels, current_centroids, 1)

(***************************************************************************)
(* C30.  Centroids stay inside the pixel range: in every state, every      *)
(* component c of every centroid of the initial set, of every Reduce       *)
(* output, of the current set and of the persisted set lies between the    *)
(* least and the greatest component c over the pixels of the buffer.  (No  *)
(* centroid changes during a Map phase: the sets are examined before and   *)
(* after it.)                                                              *)
(***************************************************************************)
InPixelRange(centroids) ==
    \A i \in DOMAIN centroids : \A c \in 1..3 :
        /\ \E n \in 1..N : ~RatLess(centroids[i][c], <<pixels[n][c], 1>>)
        /\ \E n \in 1..N : ~RatLess(<<pixels[n][c], 1>>, centroids[i][c])

RangeC30 ==
    pc # "map" =>
        /\ \A t \in 1..Len(history) : InPixelRange(history[t])
        /\ InPixelRange(current_centroids)
        /\ InPixelRange(new_centroids)
        /\ InPixelRange(file)

\* a mean strictly between the least and the greatest pixel, beside an empty
\* cluster that kept its centroid
WitnessC30 ==
    /\ pc = "check"
    /\ K = 2
    /\ \E i \in 1..K : \E c \in 1..3 : current_centroids[i][c][2] > 1
    /\ \E i \in 1..K : \A m \in 1..numProc : map_results[m][i].count = 0

====
